---- MODULE Spec2Model ----
(***************************************************************************)
(* Model of the incremental harvesting pipeline of deliberations_wavre:    *)
(*   pipeline_journalistique.py  (orchestrator: charger_derniere_seance,   *)
(*                                main, executer)                          *)
(*   extraire_deliberations.py   (detecter_seance_la_plus_recente,         *)
(*                                extraire_liens_deliberations,            *)
(*                                extraire_contenu_deliberation,           *)
(*                                sauvegarder_resultats, main)             *)
(* The upstream portal and the file system are the environment: every      *)
(* response they can give is drawn nondeterministically.                   *)
(***************************************************************************)
EXTENDS Integers, Sequences, FiniteSets, TLC

\* ------------------------------------------------------------------ bounds
\* Largest number of item cards on one listing page.
MaxCartes == 2

\* --------------------------------------------------------------- constants
\* A cursor that advances by one card instead of one page.
TaillePageUn == 2 - 1
\* Offset step of the pagination cursor (page_actuelle += 20).
TaillePage == 20
\* A threshold of three consecutive pages without a new link.
SeuilPagesVidesTrois == 2 + 1
\* A threshold of one page without a new link.
SeuilPagesVidesUn == 2 - 1
\* pages_vides_consecutives >= 2 stops the pagination.
SeuilPagesVides == 2

\* ------------------------------------------------------------ Python values
\* Python's None, as a value of the string-typed fields.
None == "None"

\* Python truthiness of an optional string.
Truthy(x) == x # None /\ x # ""

\* ------------------------------------------------------------------- URLs
\* A URL is a sequence of tokens; an absolute URL starts with the origin.
Origine == "https://www.deliberations.be"

\* str.startswith('http') on a token sequence.
StartsWithHttp(u) == Len(u) > 0 /\ u[1] = Origine

\* The hrefs the portal can put on an item card: two relative paths and the
\* absolute form of the first one.
Hrefs == { <<"/wavre/decisions/a">>, <<Origine, "/wavre/decisions/a">>,
           <<"/wavre/decisions/b">> }

\* The distinct URLs the listing can show, once normalised by lines 77-79.
UrlsDuPortail ==
    { IF StartsWithHttp(h) THEN h ELSE <<Origine>> \o h : h \in Hrefs }

\* An item card: with or without an a.filled-link anchor, whose href may be
\* missing (a = TRUE, href = <<>>).
Cartes == { [a |-> FALSE, href |-> <<>>], [a |-> TRUE, href |-> <<>>] }
          \cup { [a |-> TRUE, href |-> h] : h \in Hrefs }

\* Sequences over S of length at most n.
SeqMax(S, n) == UNION { [1..k -> S] : k \in 0..n }

\* Responses of the listing endpoint to one page request.
PagesListe == { [statut |-> "exception", cartes |-> <<>>] }
              \cup { [statut |-> "ok", cartes |-> c] : c \in SeqMax(Cartes, MaxCartes) }

\* The portal as the harvester meets it: either it may answer a page request
\* with any response (libre), or it holds a fixed listing of item hrefs and
\* serves it in pages (liste).
PortailLibre == [mode |-> "libre", items |-> <<>>]

\* Number of cards the portal puts on one listing page; the harvester's
\* cursor step assumes it.
CartesParPage == 20

\* The cards of a fixed listing served at the offset b_start.
CartesServies(items, b_start) ==
    LET dernier == IF b_start + CartesParPage < Len(items)
                   THEN b_start + CartesParPage ELSE Len(items)
        tranche == SubSeq(items, b_start + 1, dernier)
    IN [i \in 1..Len(tranche) |-> [a |-> TRUE, href |-> tranche[i]]]

\* The responses the portal can give to the request of lines 60-64 at the
\* offset b_start.
ReponsesDuPortail(p, b_start) ==
    IF p.mode = "libre" THEN PagesListe
    ELSE { [statut |-> "ok", cartes |-> CartesServies(p.items, b_start)] }

\* The path of the i-th item of a session.
Chemin(i) == "/wavre/decisions/" \o ToString(i)

\* A listing of 25 distinct items; the items in `absolus` carry an absolute
\* href, the others a relative one.
Liste25(absolus) ==
    [i \in 1..25 |-> IF i \in absolus THEN <<Origine, Chemin(i)>>
                                      ELSE <<Chemin(i)>>]

\* Portals holding such a listing.
Portails25 ==
    { [mode |-> "liste", items |-> Liste25(A)] : A \in SUBSET (21..25) }

\* URL_BASE, line 8.
URL_BASE == <<Origine, "/wavre/decisions">>

\* Lines 51-54: the URL of the listing page at the cursor page_actuelle.
UrlPage(seance_id, page_actuelle) ==
    IF page_actuelle = 0
    THEN URL_BASE \o <<"?seance=", seance_id>>
    ELSE URL_BASE \o <<"?seance=", seance_id, "&b_start:int=",
                       ToString(page_actuelle)>>

\* No request made yet.
UrlInitiale == <<>>

\* Responses of the listing root to the session detection request: the fetch
\* raises, the select#seance is absent, no option is selected, or an option
\* is selected (its value attribute may be missing or empty).
PagesRacine ==
    { [statut |-> "exception", value |-> None, title |-> None],
      [statut |-> "sans_select", value |-> None, title |-> None],
      [statut |-> "sans_option", value |-> None, title |-> None],
      [statut |-> "option", value |-> None, title |-> "Seance ?"],
      [statut |-> "option", value |-> "", title |-> "Seance vide"],
      [statut |-> "option", value |-> "s1", title |-> "Seance 1"],
      [statut |-> "option", value |-> "s2", title |-> "Seance 2"] }

\* Responses of an item URL: the fetch raises, or a document with or without
\* an h1 and with or without article#content.
PagesItem == { [statut |-> "exception", h1 |-> FALSE, article |-> FALSE] }
             \cup { [statut |-> "ok", h1 |-> h, article |-> c] : h, c \in BOOLEAN }

\* --------------------------------------------------- session detection
\* detecter_seance_la_plus_recente: no try/except around requests.get, so a
\* failing fetch raises (leve); otherwise the selected option's value and
\* title, or (None, None).
detecter_seance_la_plus_recente(page) ==
    IF page.statut = "exception"
    THEN [leve |-> TRUE, id |-> None, nom |-> None]
    ELSE IF page.statut = "option"
         THEN [leve |-> FALSE, id |-> page.value, nom |-> page.title]
         ELSE [leve |-> FALSE, id |-> None, nom |-> None]

\* ------------------------------------------------------ link harvester
\* Lines 77-79: a relative href is prefixed with the site origin.
UrlComplete(href) == IF StartsWithHttp(href) THEN href ELSE <<Origine>> \o href

\* TraiterCarte without the test of line 82 (url_complete not in liens_vus).
TraiterCarteSansVerification(acc, carte) ==
    IF carte.a /\ carte.href # <<>>
    THEN LET url_complete == UrlComplete(carte.href)
         IN [tous_les_liens |-> Append(acc.tous_les_liens, url_complete),
             liens_vus |-> acc.liens_vus \cup {url_complete},
             nouveaux_liens |-> acc.nouveaux_liens + 1]
    ELSE acc

\* TraiterCarte without liens_vus.add of line 84.
TraiterCarteSansMemoire(acc, carte) ==
    IF carte.a /\ carte.href # <<>>
    THEN LET url_complete == UrlComplete(carte.href)
         IN IF url_complete \notin acc.liens_vus
            THEN [tous_les_liens |-> Append(acc.tous_les_liens, url_complete),
                  liens_vus |-> acc.liens_vus,
                  nouveaux_liens |-> acc.nouveaux_liens + 1]
            ELSE acc
    ELSE acc

\* Lines 72-85, one card: a card without anchor or href is skipped; a link
\* not yet in liens_vus is appended and counted.
TraiterCarte(acc, carte) ==
    IF carte.a /\ carte.href # <<>>
    THEN LET url_complete == UrlComplete(carte.href)
         IN IF url_complete \notin acc.liens_vus
            THEN [tous_les_liens |-> Append(acc.tous_les_liens, url_complete),
                  liens_vus |-> acc.liens_vus \cup {url_complete},
                  nouveaux_liens |-> acc.nouveaux_liens + 1]
            ELSE acc
    ELSE acc

\* Lines 71-85: the for loop over the cards of one page.
RECURSIVE ParcourirCartes(_, _)
ParcourirCartes(acc, cartes) ==
    IF cartes = <<>> THEN acc
    ELSE ParcourirCartes(TraiterCarte(acc, Head(cartes)), Tail(cartes))

\* Locals of extraire_liens_deliberations at lines 44-47.
MoissonInitiale ==
    [tous_les_liens |-> <<>>, liens_vus |-> {}, page_actuelle |-> 0,
     pages_vides_consecutives |-> 0]

\* IterationPage whose except clause goes on to the next page instead of
\* leaving the loop.
IterationPageReessaie(m, page) ==
    IF page.statut = "exception"
    THEN [m |-> [m EXCEPT !.page_actuelle = @ + TaillePage],
          fini |-> FALSE, nouveaux_liens |-> 0]
    ELSE IF page.cartes = <<>>
    THEN [m |-> m, fini |-> TRUE, nouveaux_liens |-> 0]
    ELSE LET acc == ParcourirCartes(
                        [tous_les_liens |-> m.tous_les_liens,
                         liens_vus |-> m.liens_vus, nouveaux_liens |-> 0],
                        page.cartes)
             vides == IF acc.nouveaux_liens = 0
                      THEN m.pages_vides_consecutives + 1 ELSE 0
             stop == acc.nouveaux_liens = 0 /\ vides >= SeuilPagesVides
         IN [m |-> [tous_les_liens |-> acc.tous_les_liens,
                    liens_vus |-> acc.liens_vus,
                    page_actuelle |-> IF stop THEN m.page_actuelle
                                      ELSE m.page_actuelle + TaillePage,
                    pages_vides_consecutives |-> vides],
             fini |-> stop,
             nouveaux_liens |-> acc.nouveaux_liens]

\* IterationPage without the test of lines 66-69: a page without cards goes
\* through the card loop like any other page.
IterationPageSansArretVide(m, page) ==
    IF page.statut = "exception"
    THEN [m |-> m, fini |-> TRUE, nouveaux_liens |-> 0]
    ELSE LET acc == ParcourirCartes(
                        [tous_les_liens |-> m.tous_les_liens,
                         liens_vus |-> m.liens_vus, nouveaux_liens |-> 0],
                        page.cartes)
             vides == IF acc.nouveaux_liens = 0
                      THEN m.pages_vides_consecutives + 1 ELSE 0
             stop == acc.nouveaux_liens = 0 /\ vides >= SeuilPagesVides
         IN [m |-> [tous_les_liens |-> acc.tous_les_liens,
                    liens_vus |-> acc.liens_vus,
                    page_actuelle |-> IF stop THEN m.page_actuelle
                                      ELSE m.page_actuelle + TaillePage,
                    pages_vides_consecutives |-> vides],
             fini |-> stop,
             nouveaux_liens |-> acc.nouveaux_liens]

\* Lines 49-104: one iteration of the while loop on the response `page`.
\* Returns the locals after the iteration and whether the loop was left.
IterationPage(m, page) ==
    IF page.statut = "exception"
    THEN [m |-> m, fini |-> TRUE, nouveaux_liens |-> 0]
    ELSE IF page.cartes = <<>>
    THEN [m |-> m, fini |-> TRUE, nouveaux_liens |-> 0]
    ELSE LET acc == ParcourirCartes(
                        [tous_les_liens |-> m.tous_les_liens,
                         liens_vus |-> m.liens_vus, nouveaux_liens |-> 0],
                        page.cartes)
             vides == IF acc.nouveaux_liens = 0
                      THEN m.pages_vides_consecutives + 1 ELSE 0
             stop == acc.nouveaux_liens = 0 /\ vides >= SeuilPagesVides
         IN [m |-> [tous_les_liens |-> acc.tous_les_liens,
                    liens_vus |-> acc.liens_vus,
                    page_actuelle |-> IF stop THEN m.page_actuelle
                                      ELSE m.page_actuelle + TaillePage,
                    pages_vides_consecutives |-> vides],
             fini |-> stop,
             nouveaux_liens |-> acc.nouveaux_liens]

\* ---------------------------------------------------- content extractor
\* The exception text embedded in an error record.
MessageErreur == "Impossible d'extraire le contenu : e"

\* extraire_contenu_deliberation without its try/except: a failing fetch
\* raises out of the function.
ExtraireContenuSansTry(url, page) ==
    [leve |-> page.statut = "exception",
     delib |-> [url |-> url,
                titre |-> IF page.h1 THEN "h1" ELSE "Titre non trouvé",
                contenu |-> IF page.article THEN "article"
                            ELSE "Contenu non trouvé"]]

\* extraire_contenu_deliberation storing in a successful record the last
\* path segment it prints at line 114 instead of the whole URL.
ExtraireContenuUrlCourte(url, page) ==
    IF page.statut = "exception"
    THEN [leve |-> FALSE,
          delib |-> [url |-> url, titre |-> "Erreur", contenu |-> MessageErreur]]
    ELSE [leve |-> FALSE,
          delib |-> [url |-> <<url[Len(url)]>>,
                     titre |-> IF page.h1 THEN "h1" ELSE "Titre non trouvé",
                     contenu |-> IF page.article THEN "article"
                                 ELSE "Contenu non trouvé"]]

\* extraire_contenu_deliberation: the try/except turns a failing fetch into
\* an error record; an absent h1 or article#content gives the fallbacks.
extraire_contenu_deliberation(url, page) ==
    IF page.statut = "exception"
    THEN [leve |-> FALSE,
          delib |-> [url |-> url, titre |-> "Erreur", contenu |-> MessageErreur]]
    ELSE [leve |-> FALSE,
          delib |-> [url |-> url,
                     titre |-> IF page.h1 THEN "h1" ELSE "Titre non trouvé",
                     contenu |-> IF page.article THEN "article"
                                 ELSE "Contenu non trouvé"]]

\* ----------------------------------------------------------- corpus store
\* The snapshot file: whether it exists, whether it can be opened for
\* reading, and its content as the sequence of chunks written so far.
FichierAbsent == [existe |-> FALSE, lisible |-> FALSE, contenu |-> <<>>]

\* The closing chunk of a document written by json.dump.
Fin == [genre |-> "fin"]

\* Lines 158-168: the export dictionary as json.dump writes it, chunk by
\* chunk: the head (exported_at, seance), one chunk per record, the end.
Serialiser(deliberations, seance_id, seance_nom, maintenant) ==
    << [genre |-> "entete", exported_at |-> maintenant,
        id |-> seance_id, nom |-> seance_nom] >>
    \o [i \in 1..Len(deliberations) |->
          [genre |-> "delib", delib |-> deliberations[i]]]
    \o << Fin >>

\* Documents that something other than sauvegarder_resultats left at the
\* path: the `forme` of a one-chunk file.
FormesExternes == { "liste", "dict_sans_seance", "seance_null", "seance_str",
                    "seance_str_vide", "seance_liste", "seance_dict_vide" }

\* The value of the "seance" key of a parsed document.
SeanceAbsente == [type |-> "absent", vrai |-> FALSE, id |-> None, nom |-> None]

SeanceExterne(forme) ==
    CASE forme = "seance_null" -> [SeanceAbsente EXCEPT !.type = "null"]
      [] forme = "seance_str" -> [SeanceAbsente EXCEPT !.type = "str", !.vrai = TRUE]
      [] forme = "seance_str_vide" -> [SeanceAbsente EXCEPT !.type = "str"]
      [] forme = "seance_liste" -> [SeanceAbsente EXCEPT !.type = "list", !.vrai = TRUE]
      [] forme = "seance_dict_vide" -> [SeanceAbsente EXCEPT !.type = "dict"]
      [] OTHER -> SeanceAbsente

\* json.load on the content: invalid unless the document is complete.
JsonLoad(contenu) ==
    IF contenu = <<>>
    THEN [valide |-> FALSE, est_dict |-> FALSE, seance |-> SeanceAbsente,
          deliberations |-> <<>>]
    ELSE IF contenu[1].genre = "externe"
    THEN [valide |-> TRUE, est_dict |-> contenu[1].forme # "liste",
          seance |-> SeanceExterne(contenu[1].forme), deliberations |-> <<>>]
    ELSE IF contenu[Len(contenu)] = Fin
    THEN [valide |-> TRUE, est_dict |-> TRUE,
          seance |-> [type |-> "dict", vrai |-> TRUE,
                      id |-> contenu[1].id, nom |-> contenu[1].nom],
          deliberations |-> [i \in 1..(Len(contenu) - 2) |-> contenu[i + 1].delib]]
    ELSE [valide |-> FALSE, est_dict |-> FALSE, seance |-> SeanceAbsente,
          deliberations |-> <<>>]

\* charger_derniere_seance: (None, None) for an absent, unreadable or
\* unparsable file and for a document that is not an object; otherwise
\* meta = donnees.get("seance") or {}, and meta.get raises AttributeError
\* when meta is a non-empty string or list.
charger_derniere_seance(f) ==
    IF ~f.existe \/ ~f.lisible
    THEN [leve |-> FALSE, id |-> None, nom |-> None]
    ELSE LET donnees == JsonLoad(f.contenu)
         IN IF ~donnees.valide \/ ~donnees.est_dict
            THEN [leve |-> FALSE, id |-> None, nom |-> None]
            ELSE IF ~donnees.seance.vrai
            THEN [leve |-> FALSE, id |-> None, nom |-> None]
            ELSE IF donnees.seance.type = "dict"
            THEN [leve |-> FALSE, id |-> donnees.seance.id,
                  nom |-> donnees.seance.nom]
            ELSE [leve |-> TRUE, id |-> None, nom |-> None]

\* Line 78 with != in place of ==.
AucuneNouvelleSeanceDifferente(seance_vue_id, nouvelle_seance_id, force) ==
    Truthy(nouvelle_seance_id) /\ seance_vue_id # nouvelle_seance_id /\ ~force

\* Line 78 of the orchestrator: the condition under which the run is skipped.
AucuneNouvelleSeance(seance_vue_id, nouvelle_seance_id, force) ==
    Truthy(nouvelle_seance_id) /\ seance_vue_id = nouvelle_seance_id /\ ~force

\* The extraction script without the early return of lines 217-219.
SuiteApresLiensSansRetour(liens_trouves) == "extraire"

\* Lines 217-219 of the extraction script: with no link the script returns
\* before extracting or saving anything.
SuiteApresLiens(liens_trouves) ==
    IF liens_trouves = <<>> THEN "retour" ELSE "extraire"

\* ================================================================ state
VARIABLES
    pc,                \* position of the running process
    args,              \* parsed command line of the orchestrator
    fichier,           \* deliberations_wavre.json
    fichier_debut,     \* the file as it was when the execution started
    orch,              \* locals of pipeline_journalistique.main
    seance,            \* seance_id, seance_nom of extraire_deliberations.main
    moisson,           \* locals of extraire_liens_deliberations
    liens,             \* liens of extraire_deliberations.main
    deliberations,     \* deliberations of extraire_deliberations.main
    a_ecrire,          \* chunks json.dump has still to write
    erreur,            \* the exception that ended the execution, or None
    sortie_extraction, \* how the extraction script returned
    journal,           \* what the execution did: fetches, launches, writes
    obs,               \* what the upstream served during the current harvest
    reponses_items,    \* the responses of the item URLs fetched so far
    url,               \* url of extraire_liens_deliberations: the last request
    portail            \* the listing the portal holds, or any response at all

vars == << pc, args, fichier, fichier_debut, orch, seance, moisson,
           liens, deliberations, a_ecrire, erreur, sortie_extraction, journal,
           obs, reponses_items, url, portail >>

Terminaux == { "SKIPPED", "TERMINE", "ERREUR", "INTERROMPU" }

Arguments == [force : BOOLEAN, skip_extraction : BOOLEAN, skip_analyse : BOOLEAN]

OrchInitial ==
    [seance_vue_id |-> None, seance_vue_nom |-> None,
     nouvelle_seance_id |-> None, nouvelle_seance_nom |-> None]

SeanceInitiale == [id |-> None, nom |-> None]

ObsInitiale ==
    [pages |-> 0, echecs |-> 0, redites |-> {}, doubles |-> {},
     liens_avant |-> <<>>, vides_avant |-> 0, nouvelles |-> 0,
     derniere |-> [statut |-> "aucune", cartes |-> <<>>]]

\* datetime.utcnow() of this execution, and of an earlier one.
Maintenant == "t1"
Avant == "t0"

\* The snapshot an earlier execution stored for session s1.
SnapshotAnterieur ==
    Serialiser(<< [url |-> <<Origine, "/wavre/decisions/a">>,
                   titre |-> "h1", contenu |-> "article"] >>,
               "s1", "Seance 1", Avant)

\* What may lie at the snapshot path when the pipeline starts: nothing, a
\* file that cannot be opened, an empty file, a snapshot whose writing was
\* cut short, a foreign JSON document, or the snapshot of an earlier
\* execution.
FichiersInitiaux ==
    { FichierAbsent,
      [existe |-> TRUE, lisible |-> FALSE, contenu |-> <<>>],
      [existe |-> TRUE, lisible |-> TRUE, contenu |-> <<>>],
      [existe |-> TRUE, lisible |-> TRUE, contenu |-> SubSeq(SnapshotAnterieur, 1, 2)],
      [existe |-> TRUE, lisible |-> TRUE, contenu |-> SnapshotAnterieur] }
    \cup { [existe |-> TRUE, lisible |-> TRUE,
            contenu |-> << [genre |-> "externe", forme |-> f] >>]
           : f \in FormesExternes }

Init ==
    /\ pc = "debut"
    /\ args \in Arguments
    /\ fichier \in FichiersInitiaux
    /\ fichier_debut = fichier
    /\ orch = OrchInitial
    /\ seance = SeanceInitiale
    /\ moisson = MoissonInitiale
    /\ liens = <<>>
    /\ deliberations = <<>>
    /\ a_ecrire = <<>>
    /\ erreur = None
    /\ sortie_extraction = "aucune"
    /\ journal = {}
    /\ obs = ObsInitiale
    /\ reponses_items = <<>>
    /\ url = UrlInitiale
    /\ portail = PortailLibre

\* The locals of the extraction script disappear when its process ends.
OublierExtraction ==
    /\ seance' = SeanceInitiale
    /\ moisson' = MoissonInitiale
    /\ liens' = <<>>
    /\ deliberations' = <<>>
    /\ a_ecrire' = <<>>
    /\ obs' = ObsInitiale
    /\ reponses_items' = <<>>
    /\ url' = UrlInitiale

\* An uncaught exception: in the orchestrator it reaches the handler of
\* lines 113-117; in the extraction script it makes executer raise
\* RuntimeError, which reaches the same handler. Exit status 1.
Echouer(cause) ==
    /\ pc' = "ERREUR"
    /\ erreur' = cause
    /\ OublierExtraction

\* ------------------------------------------------- what the upstream served
\* The URLs of the cards of a page that carry a link, in page order.
UrlsServies(cartes) ==
    LET avec == SelectSeq(cartes, LAMBDA c : c.a /\ c.href # <<>>)
    IN [i \in 1..Len(avec) |-> UrlComplete(avec[i].href)]

\* The record of what was served, after the response `page` to a request
\* made with the locals m.
Observer(o, m, page) ==
    LET servies == IF page.statut = "ok" THEN UrlsServies(page.cartes) ELSE <<>>
    IN [pages |-> o.pages + 1,
        echecs |-> o.echecs + (IF page.statut = "exception" THEN 1 ELSE 0),
        redites |-> o.redites \cup
            { servies[i] : i \in { j \in 1..Len(servies) : servies[j] \in m.liens_vus } },
        doubles |-> o.doubles \cup
            { servies[i] : i \in { j \in 1..Len(servies) :
                                     \E k \in 1..(j - 1) : servies[k] = servies[j] } },
        liens_avant |-> m.tous_les_liens,
        vides_avant |-> m.pages_vides_consecutives,
        nouvelles |-> o.nouvelles +
            (IF \E i \in 1..Len(servies) : servies[i] \notin m.liens_vus
             THEN 1 ELSE 0),
        derniere |-> page]

\* ============================================================ orchestrator
\* pipeline_journalistique.main, lines 72-74 and 91-92.
Demarrer ==
    /\ pc = "debut"
    /\ pc' = IF args.skip_extraction THEN "analyse" ELSE "charger"
    /\ UNCHANGED << portail, args, fichier, fichier_debut, orch, seance, url,
                    moisson, liens, deliberations, a_ecrire, erreur,
                    sortie_extraction, journal, obs, reponses_items >>

\* Line 75: seance_vue_id, seance_vue_nom = charger_derniere_seance(...).
Charger ==
    /\ pc = "charger"
    /\ LET r == charger_derniere_seance(fichier)
       IN IF r.leve
          THEN /\ Echouer("charger_derniere_seance")
               /\ UNCHANGED orch
          ELSE /\ pc' = "detecter"
               /\ orch' = [orch EXCEPT !.seance_vue_id = r.id,
                                       !.seance_vue_nom = r.nom]
               /\ UNCHANGED << seance, url, moisson, liens, deliberations, a_ecrire,
                               erreur, obs, reponses_items >>
    /\ UNCHANGED << portail, args, fichier, fichier_debut,
                    sortie_extraction, journal >>

\* Line 76: nouvelle_seance_id, nouvelle_seance_nom = detecter_...().
Detecter ==
    /\ pc = "detecter"
    /\ \E page \in PagesRacine :
         LET r == detecter_seance_la_plus_recente(page)
         IN IF r.leve
            THEN /\ Echouer("detecter_seance_la_plus_recente")
                 /\ UNCHANGED orch
            ELSE /\ pc' = "decider"
                 /\ orch' = [orch EXCEPT !.nouvelle_seance_id = r.id,
                                         !.nouvelle_seance_nom = r.nom]
                 /\ UNCHANGED << seance, url, moisson, liens, deliberations,
                                 a_ecrire, erreur, obs, reponses_items >>
    /\ journal' = journal \cup {"detection"}
    /\ UNCHANGED << portail, args, fichier, fichier_debut, sortie_extraction >>

\* Lines 78-90: skip, or launch the extraction script with executer.
Decider ==
    /\ pc = "decider"
    /\ IF AucuneNouvelleSeance(orch.seance_vue_id, orch.nouvelle_seance_id,
                               args.force)
       THEN /\ pc' = "SKIPPED"
            /\ UNCHANGED journal
       ELSE /\ pc' = "x_detecter"
            /\ journal' = journal \cup {"lancement"}
    /\ UNCHANGED << portail, args, fichier, fichier_debut, orch, seance, url,
                    moisson, liens, deliberations, a_ecrire, erreur,
                    sortie_extraction, obs, reponses_items >>

\* Lines 94-109: the analysis step, an external collaborator that only
\* reads the snapshot; it is skipped, succeeds or fails.
AnalyseIgnoree ==
    /\ pc = "analyse"
    /\ args.skip_analyse
    /\ pc' = "TERMINE"
    /\ UNCHANGED << portail, args, fichier, fichier_debut, orch, seance, url,
                    moisson, liens, deliberations, a_ecrire, erreur,
                    sortie_extraction, journal, obs, reponses_items >>

AnalyseReussie ==
    /\ pc = "analyse"
    /\ ~args.skip_analyse
    /\ pc' = "TERMINE"
    /\ journal' = journal \cup {"analyse"}
    /\ UNCHANGED << portail, args, fichier, fichier_debut, orch, seance, url,
                    moisson, liens, deliberations, a_ecrire, erreur,
                    sortie_extraction, obs, reponses_items >>

AnalyseEchouee ==
    /\ pc = "analyse"
    /\ ~args.skip_analyse
    /\ Echouer("analyser_sujets")
    /\ journal' = journal \cup {"analyse"}
    /\ UNCHANGED << portail, args, fichier, fichier_debut, orch,
                    sortie_extraction >>

\* ======================================================= extraction script
\* extraire_deliberations.main, lines 208-212: the script detects the
\* session itself and returns at once when it finds none.
XDetecter ==
    /\ pc = "x_detecter"
    /\ \E page \in PagesRacine :
         LET r == detecter_seance_la_plus_recente(page)
         IN IF r.leve
            THEN /\ Echouer("extraction")
                 /\ UNCHANGED sortie_extraction
            ELSE IF ~Truthy(r.id)
            THEN /\ pc' = "analyse"
                 /\ sortie_extraction' = "sans_seance"
                 /\ OublierExtraction
                 /\ UNCHANGED erreur
            ELSE /\ pc' = "x_liens"
                 /\ seance' = [id |-> r.id, nom |-> r.nom]
                 /\ UNCHANGED << moisson, liens, deliberations, a_ecrire,
                                 erreur, sortie_extraction, obs, reponses_items,
                                 url >>
    /\ journal' = journal \cup {"x_detection"}
    /\ UNCHANGED << portail, args, fichier, fichier_debut, orch >>

\* extraire_liens_deliberations, lines 49-104: one page request and the
\* iteration on its response. `observe` keeps the record of what was served.
XPageDe(observe) ==
    /\ pc = "x_liens"
    /\ url' = UrlPage(seance.id, moisson.page_actuelle)
    /\ \E page \in ReponsesDuPortail(portail, moisson.page_actuelle) :
         LET it == IterationPage(moisson, page)
         IN /\ moisson' = it.m
            /\ pc' = IF it.fini THEN "x_liens_retour" ELSE "x_liens"
            /\ obs' = IF observe THEN Observer(obs, moisson, page) ELSE obs
    /\ journal' = journal \cup {"page"}
    /\ UNCHANGED << portail, args, fichier, fichier_debut, orch, seance,
                    liens, deliberations, a_ecrire, erreur, sortie_extraction,
                    reponses_items >>

XPage == XPageDe(FALSE)

\* Lines 106-107 and 215-223: the harvester returns tous_les_liens; main
\* returns when the list is empty and otherwise starts the extraction loop.
XLiensRetour ==
    /\ pc = "x_liens_retour"
    /\ LET trouves == moisson.tous_les_liens
       IN /\ journal' = journal \cup
                 (IF trouves = <<>> THEN {"moisson_vide"} ELSE {})
          /\ IF SuiteApresLiens(trouves) = "retour"
             THEN /\ pc' = "analyse"
                  /\ sortie_extraction' = "sans_liens"
                  /\ OublierExtraction
             ELSE /\ pc' = IF trouves = <<>> THEN "x_ouvrir" ELSE "x_contenu"
                  /\ liens' = trouves
                  /\ moisson' = MoissonInitiale
                  /\ obs' = ObsInitiale
                  /\ url' = UrlInitiale
                  /\ UNCHANGED << seance, deliberations, a_ecrire,
                                  sortie_extraction, reponses_items >>
    /\ UNCHANGED << portail, args, fichier, fichier_debut, orch, erreur >>

\* Lines 226-229: one iteration of the extraction loop, on the next link.
XContenu ==
    /\ pc = "x_contenu"
    /\ Len(deliberations) < Len(liens)
    /\ \E page \in PagesItem :
         LET r == extraire_contenu_deliberation(liens[Len(deliberations) + 1], page)
         IN IF r.leve
            THEN Echouer("extraire_contenu_deliberation")
            ELSE /\ deliberations' = Append(deliberations, r.delib)
                 /\ reponses_items' = Append(reponses_items, page)
                 /\ pc' = IF Len(deliberations) + 1 = Len(liens)
                          THEN "x_ouvrir" ELSE "x_contenu"
                 /\ UNCHANGED << seance, url, moisson, liens, a_ecrire, erreur, obs >>
    /\ journal' = journal \cup {"item"}
    /\ UNCHANGED << portail, args, fichier, fichier_debut, orch,
                    sortie_extraction >>

\* sauvegarder_resultats, line 167: open(nom_fichier, 'w') truncates the
\* file in place.
XOuvrir ==
    /\ pc = "x_ouvrir"
    /\ pc' = "x_ecrire"
    /\ fichier' = [existe |-> TRUE,
                   lisible |-> IF fichier.existe THEN fichier.lisible ELSE TRUE,
                   contenu |-> <<>>]
    /\ a_ecrire' = Serialiser(deliberations, seance.id, seance.nom, Maintenant)
    /\ journal' = journal \cup {"ecriture"}
    /\ UNCHANGED << portail, args, fichier_debut, orch, seance, url, moisson,
                    liens, deliberations, erreur, sortie_extraction, obs,
                    reponses_items >>

\* Line 167 raising OSError: nothing was truncated, the script dies.
XOuvrirEchoue ==
    /\ pc = "x_ouvrir"
    /\ Echouer("extraction")
    /\ UNCHANGED << portail, args, fichier, fichier_debut, orch,
                    sortie_extraction, journal >>

\* Line 168: json.dump writes the next chunk; after the last one the file
\* is closed.
XEcrire ==
    /\ pc = "x_ecrire"
    /\ a_ecrire # <<>>
    /\ fichier' = [fichier EXCEPT !.contenu = Append(@, Head(a_ecrire))]
    /\ a_ecrire' = Tail(a_ecrire)
    /\ pc' = IF Tail(a_ecrire) = <<>> THEN "x_resume" ELSE "x_ecrire"
    /\ UNCHANGED << portail, args, fichier_debut, orch, seance, url, moisson,
                    liens, deliberations, erreur, sortie_extraction, journal,
                    obs, reponses_items >>

\* Line 168 raising OSError (disk full, I/O error): the script dies and the
\* file keeps what was written.
XEcrireEchoue ==
    /\ pc = "x_ecrire"
    /\ Echouer("extraction")
    /\ UNCHANGED << portail, args, fichier, fichier_debut, orch,
                    sortie_extraction, journal >>

\* Lines 233-241: creer_resume_texte writes the text summary and the script
\* ends.
XResume ==
    /\ pc = "x_resume"
    /\ pc' = "analyse"
    /\ sortie_extraction' = "terminee"
    /\ OublierExtraction
    /\ UNCHANGED << portail, args, fichier, fichier_debut, orch, erreur,
                    journal >>

\* Line 233 raising OSError.
XResumeEchoue ==
    /\ pc = "x_resume"
    /\ Echouer("extraction")
    /\ UNCHANGED << portail, args, fichier, fichier_debut, orch,
                    sortie_extraction, journal >>

\* ============================================================ environment
\* The process is killed (signal, power loss) wherever it is.
Interrompre ==
    /\ pc \notin Terminaux
    /\ pc' = "INTERROMPU"
    /\ OublierExtraction
    /\ UNCHANGED << portail, args, fichier, fichier_debut, orch, erreur,
                    sortie_extraction, journal >>

Next ==
    \/ Demarrer \/ Charger \/ Detecter \/ Decider
    \/ XDetecter \/ XPage \/ XLiensRetour \/ XContenu
    \/ XOuvrir \/ XOuvrirEchoue \/ XEcrire \/ XEcrireEchoue
    \/ XResume \/ XResumeEchoue
    \/ AnalyseIgnoree \/ AnalyseReussie \/ AnalyseEchouee
    \/ Interrompre

Spec == Init /\ [][Next]_vars

\* ------------------------------------------- the link harvester alone
\* extraire_liens_deliberations called for a detected session, with the
\* record of what the upstream serves.
InitMoisson ==
    /\ pc = "x_liens"
    /\ args = [force |-> FALSE, skip_extraction |-> FALSE, skip_analyse |-> FALSE]
    /\ fichier = FichierAbsent
    /\ fichier_debut = fichier
    /\ \E p \in { q \in PagesRacine : Truthy(q.value) } :
         /\ orch = [OrchInitial EXCEPT !.nouvelle_seance_id = p.value,
                                       !.nouvelle_seance_nom = p.title]
         /\ seance = [id |-> p.value, nom |-> p.title]
    /\ moisson = MoissonInitiale
    /\ liens = <<>>
    /\ deliberations = <<>>
    /\ a_ecrire = <<>>
    /\ erreur = None
    /\ sortie_extraction = "aucune"
    /\ journal = {"detection", "lancement", "x_detection"}
    /\ obs = ObsInitiale
    /\ reponses_items = <<>>
    /\ url = UrlInitiale
    /\ portail = PortailLibre

XPageObservee == XPageDe(TRUE)

NextMoisson == XPageObservee \/ XLiensRetour

SpecMoisson == InitMoisson /\ [][NextMoisson]_vars

\* ------------------------- the link harvester on a listing of 25 items
\* extraire_liens_deliberations called for a detected session whose listing
\* holds 25 distinct items, served 20 cards per page.
InitListe25 ==
    /\ pc = "x_liens"
    /\ args = [force |-> FALSE, skip_extraction |-> FALSE, skip_analyse |-> FALSE]
    /\ fichier = FichierAbsent
    /\ fichier_debut = fichier
    /\ \E p \in { q \in PagesRacine : Truthy(q.value) } :
         /\ orch = [OrchInitial EXCEPT !.nouvelle_seance_id = p.value,
                                       !.nouvelle_seance_nom = p.title]
         /\ seance = [id |-> p.value, nom |-> p.title]
    /\ moisson = MoissonInitiale
    /\ liens = <<>>
    /\ deliberations = <<>>
    /\ a_ecrire = <<>>
    /\ erreur = None
    /\ sortie_extraction = "aucune"
    /\ journal = {"detection", "lancement", "x_detection"}
    /\ obs = ObsInitiale
    /\ reponses_items = <<>>
    /\ url = UrlInitiale
    /\ portail \in Portails25

SpecListe25 == InitListe25 /\ [][NextMoisson]_vars

\* ================================================================ claims
SansDoublon(s) == \A i, j \in 1..Len(s) : i # j => s[i] # s[j]

\* C1: whatever listing pages are served, including pages that repeat a
\* card of an earlier page or show a card twice, the list the harvester
\* builds and returns never holds a URL twice.
C1_SansDoublon ==
    /\ SansDoublon(moisson.tous_les_liens)
    /\ SansDoublon(liens)
    /\ Cardinality(moisson.liens_vus) = Len(moisson.tous_les_liens)

\* A harvest that ends after a link was served again on a later page and a
\* link was served twice on one page.
C1_Temoin ==
    /\ pc = "x_liens_retour"
    /\ obs.redites # {}
    /\ obs.doubles # {}
    /\ Len(moisson.tous_les_liens) = 2

\* C9: when the request of a listing page raises, it is the last request of
\* the harvest, the harvester returns normally, and what it returns is the
\* list as it stood before the failing page, in the same order.
C9_EchecArretePagination ==
    /\ [](obs.echecs >= 1 =>
            /\ pc = "x_liens_retour"
            /\ obs.echecs = 1
            /\ obs.pages * TaillePage = moisson.page_actuelle + TaillePage
            /\ moisson.tous_les_liens = obs.liens_avant)
    /\ [][pc = "x_liens_retour" /\ obs.echecs >= 1 => liens' = obs.liens_avant]_vars

\* A harvest stopped by a failing page after two pages that gave links.
C9_Temoin ==
    /\ pc = "x_liens_retour"
    /\ obs.echecs = 1
    /\ obs.pages = 3
    /\ Len(moisson.tous_les_liens) = 2

\* C2: when the detected session is known and is the stored one, and force
\* is not set, the orchestrator goes from the decision to SKIPPED and
\* nowhere else: it launches nothing, fetches no listing page and no item,
\* opens the snapshot for no write, and the file is as it was at the start.
C2_SeanceConnueIgnoree ==
    /\ ( /\ orch.nouvelle_seance_id # None
         /\ orch.seance_vue_id = orch.nouvelle_seance_id
         /\ ~args.force )
       => /\ pc \in {"decider", "SKIPPED", "INTERROMPU"}
          /\ journal = {"detection"}
          /\ fichier = fichier_debut
    /\ pc = "SKIPPED"
       => /\ journal = {"detection"}
          /\ fichier = fichier_debut

\* A skipped execution over the snapshot stored for session s1.
C2_Temoin ==
    /\ pc = "SKIPPED"
    /\ orch.nouvelle_seance_id = "s1"
    /\ ~args.force
    /\ fichier.contenu = SnapshotAnterieur

\* C3, as stated: after a harvest that found no link the extraction script
\* has ended with a complete snapshot of that execution holding an empty
\* record sequence.
C3_SnapshotVideEcrit ==
    ("moisson_vide" \in journal /\ pc \in {"analyse", "TERMINE"})
    => /\ "ecriture" \in journal
       /\ JsonLoad(fichier.contenu).valide
       /\ JsonLoad(fichier.contenu).deliberations = <<>>

\* C3, amended: after a harvest that found no link the extraction script
\* returns at once: it fetches no item, never opens the snapshot for
\* writing, and the snapshot file is as it was when the execution started,
\* so the stored session a following execution reads is the one this
\* execution read.
C3_AucunLienRienEcrit ==
    "moisson_vide" \in journal
    => /\ sortie_extraction = "sans_liens"
       /\ "item" \notin journal
       /\ "ecriture" \notin journal
       /\ fichier = fichier_debut
       /\ ~charger_derniere_seance(fichier).leve
       /\ charger_derniere_seance(fichier).id = orch.seance_vue_id

\* An execution that detected s2 over the snapshot of s1, found no link and
\* ended with the snapshot of s1 still in place.
C3_Temoin ==
    /\ pc = "TERMINE"
    /\ "moisson_vide" \in journal
    /\ orch.nouvelle_seance_id = "s2"
    /\ fichier.contenu = SnapshotAnterieur

\* C4, as stated: no execution ends on an exception that escaped the
\* session detector.
C4_DetectionSansException ==
    ~(pc = "ERREUR" /\ erreur = "detecter_seance_la_plus_recente")

\* C5, as stated: when the orchestrator's detection gave an unknown session
\* and the extraction step it launched has returned, a listing page was
\* requested.
C5_SeanceInconnueMoissonnee ==
    ( /\ orch.nouvelle_seance_id = None
      /\ "lancement" \in journal
      /\ pc \in {"analyse", "TERMINE"} )
    => "page" \in journal

\* C6, as stated: after an interruption or a failure the snapshot path
\* holds the file of before the execution or a complete snapshot written
\* by the execution.
C6_EcritureToutOuRien ==
    pc \in {"INTERROMPU", "ERREUR"}
    => \/ fichier = fichier_debut
       \/ "ecriture" \in journal /\ JsonLoad(fichier.contenu).valide

\* C7: the extractor never raises; every link extracted so far has exactly
\* one record, at its position and with its url; the record of a link whose
\* fetch raised has the title Erreur and the error message as body; the
\* loop goes on to the last link and the snapshot written holds all the
\* records.
C7_ErreurContenue ==
    /\ erreur # "extraire_contenu_deliberation"
    /\ Len(deliberations) = Len(reponses_items)
    /\ Len(deliberations) <= Len(liens)
    /\ \A i \in 1..Len(deliberations) :
         /\ deliberations[i].url = liens[i]
         /\ reponses_items[i].statut = "exception"
            => /\ deliberations[i].titre = "Erreur"
               /\ deliberations[i].contenu = MessageErreur
         /\ reponses_items[i].statut = "ok"
            => deliberations[i].titre =
                 (IF reponses_items[i].h1 THEN "h1" ELSE "Titre non trouvé")
    /\ pc \in {"x_ouvrir", "x_ecrire", "x_resume"}
       => Len(deliberations) = Len(liens)
    /\ pc = "x_resume"
       => JsonLoad(fichier.contenu).deliberations = deliberations

\* A snapshot written after the first of two item fetches raised and the
\* second succeeded.
C7_Temoin ==
    /\ pc = "x_resume"
    /\ Len(deliberations) = 2
    /\ reponses_items[1].statut = "exception"
    /\ reponses_items[2].statut = "ok"
    /\ deliberations[2].titre = "h1"

\* C8, as stated: no execution ends on an exception that escaped
\* charger_derniere_seance.
C8_ChargementSansException ==
    ~(pc = "ERREUR" /\ erreur = "charger_derniere_seance")

\* C10, as stated: an execution that does not skip the extraction step and
\* has ended by itself was either skipped, the detected session being
\* known, equal to the stored one and force not set, or it launched the
\* extraction script.
C10_IgnoreOuLance ==
    (~args.skip_extraction /\ pc \in {"SKIPPED", "TERMINE", "ERREUR"})
    => \/ /\ pc = "SKIPPED"
          /\ orch.nouvelle_seance_id # None
          /\ orch.seance_vue_id = orch.nouvelle_seance_id
          /\ ~args.force
       \/ /\ pc # "SKIPPED"
          /\ "lancement" \in journal

\* C11 as stated: at any moment of a harvest the number of page fetches is
\* at most the number of fetched pages that yielded a new link, plus two.
C11_NouvellesPlusDeux == obs.pages <= obs.nouvelles + 2

\* C11: the number of page fetches (one per loop iteration, the cursor
\* advancing by TaillePage per iteration that goes on) is at most twice the
\* number of fetched pages that yielded at least one new link, plus two,
\* and the loop is left at the first page that returns zero cards.
C11_BorneDesRequetes ==
    /\ obs.pages <= 2 * obs.nouvelles + 2
    /\ pc = "x_liens" => moisson.page_actuelle = obs.pages * TaillePage
    /\ (obs.derniere.statut = "ok" /\ obs.derniere.cartes = <<>>)
           => pc = "x_liens_retour"

\* C11 witness: a harvest that ended after six fetches of which two yielded
\* new links.
C11_Temoin ==
    /\ pc = "x_liens_retour"
    /\ obs.nouvelles = 2
    /\ obs.pages = 6
    /\ Len(moisson.tous_les_liens) = 2

\* C12: with a listing of 25 distinct items served as 20 cards at offset 0,
\* 5 cards at offset 20 and no card at any later offset, the harvester
\* issues at most 3 page fetches (offsets 0, 20 and 40) and returns the 25
\* links, each once, in the order encountered.
C12_VingtCinqLiens ==
    LET attendus == [i \in 1..25 |-> <<Origine, Chemin(i)>>]
    IN /\ obs.pages <= 3
       /\ obs.pages >= 1 =>
              /\ obs.derniere.statut = "ok"
              /\ Len(obs.derniere.cartes) =
                     (IF obs.pages = 1 THEN 20 ELSE IF obs.pages = 2 THEN 5 ELSE 0)
       /\ pc = "x_liens" => moisson.page_actuelle = obs.pages * TaillePage
       /\ pc = "x_liens_retour" => moisson.tous_les_liens = attendus
       /\ pc = "x_contenu" => liens = attendus /\ SansDoublon(liens)

\* C12 witness: the harvester has returned the 25 links of a listing whose
\* last item carries an absolute href.
C12_Temoin ==
    /\ pc = "x_contenu"
    /\ Len(liens) = 25
    /\ StartsWithHttp(portail.items[25])
    /\ ~StartsWithHttp(portail.items[24])

\* The set of the elements of a sequence.
Elements(s) == { s[i] : i \in 1..Len(s) }

\* s is an initial segment of t.
Prefixe(s, t) == Len(s) <= Len(t) /\ SubSeq(t, 1, Len(s)) = s

\* C13: a page that has cards but yields no new link stops the pagination
\* only if the page fetched immediately before it also had cards and yielded
\* no new link; a single such page does not stop it; a page with at least
\* one new link resets the consecutive counter and never stops, and its
\* links, also when it follows a single zero-new-link page, are appended to
\* the list that is finally returned.
C13_DeuxPagesVidesDeSuite ==
    [][ LET page == obs'.derniere
            nouveaux == Len(moisson'.tous_les_liens) - Len(moisson.tous_les_liens)
            precedente_vide == /\ obs.pages >= 1
                               /\ obs.derniere.statut = "ok"
                               /\ obs.derniere.cartes # <<>>
                               /\ moisson.tous_les_liens = obs.liens_avant
        IN /\ (pc = "x_liens" /\ page.statut = "ok" /\ page.cartes # <<>>) =>
                /\ Prefixe(moisson.tous_les_liens, moisson'.tous_les_liens)
                /\ Elements(moisson'.tous_les_liens) =
                       Elements(moisson.tous_les_liens)
                           \cup Elements(UrlsServies(page.cartes))
                /\ nouveaux = 0 =>
                       /\ (pc' = "x_liens_retour") = precedente_vide
                       /\ moisson'.pages_vides_consecutives =
                              (IF precedente_vide THEN 2 ELSE 1)
                /\ nouveaux > 0 =>
                       /\ pc' = "x_liens"
                       /\ moisson'.pages_vides_consecutives = 0
           /\ pc = "x_liens_retour" => liens' = moisson.tous_les_liens
      ]_vars

\* C13 witness: the pagination goes on after a page that was fetched right
\* after a single zero-new-link page and that yielded a new link.
C13_Temoin ==
    /\ pc = "x_liens"
    /\ obs.vides_avant = 1
    /\ moisson.pages_vides_consecutives = 0
    /\ Len(moisson.tous_les_liens) > Len(obs.liens_avant)
    /\ obs.liens_avant # <<>>

\* C14: a listing page that returns zero item cards ends the pagination at
\* once, whether the consecutive counter is 0 or 1 and whatever was
\* collected: the cursor and the counter stay as they were, no further page
\* is fetched and the links collected before that page are what the
\* harvester returns. A page that has cards of which none carries a link
\* is counted as a zero-new-link page instead: it stops the pagination only
\* when the counter was already 1.
C14_PageSansCarteArrete ==
    /\ [](LET d == obs.derniere
          IN /\ (d.statut = "ok" /\ d.cartes = <<>>) =>
                  /\ pc = "x_liens_retour"
                  /\ obs.vides_avant \in {0, 1}
                  /\ moisson.pages_vides_consecutives = obs.vides_avant
                  /\ moisson.tous_les_liens = obs.liens_avant
                  /\ moisson.page_actuelle = (obs.pages - 1) * TaillePage
             /\ (d.statut = "ok" /\ d.cartes # <<>>
                    /\ UrlsServies(d.cartes) = <<>>) =>
                  /\ moisson.tous_les_liens = obs.liens_avant
                  /\ moisson.pages_vides_consecutives = obs.vides_avant + 1
                  /\ (pc = "x_liens_retour") = (obs.vides_avant = 1))
    /\ [][(pc = "x_liens_retour" /\ obs.derniere.statut = "ok"
              /\ obs.derniere.cartes = <<>>)
            => (liens' = obs.liens_avant /\ pc' # "x_liens")]_vars

\* C14 witness: a page without cards ended a harvest that had collected a
\* link and whose counter was 1.
C14_Temoin ==
    /\ pc = "x_liens_retour"
    /\ obs.derniere.statut = "ok"
    /\ obs.derniere.cartes = <<>>
    /\ obs.vides_avant = 1
    /\ moisson.tous_les_liens # <<>>

\* The URLs of a sequence of records.
UrlsDe(d) == [i \in 1..Len(d) |-> d[i].url]

\* C15: the extraction loop fetches the harvested links one at a time, in
\* harvested order, once each, so the records built so far carry the URLs
\* of the first links; the snapshot that is written holds exactly one
\* record per harvested link, the i-th record carrying the i-th link, and
\* the record URLs of a snapshot written by the execution are pairwise
\* distinct.
C15_UnRecordParLien ==
    /\ pc \in {"x_contenu", "x_ouvrir", "x_ecrire", "x_resume"} =>
          /\ Len(reponses_items) = Len(deliberations)
          /\ Prefixe(UrlsDe(deliberations), liens)
          /\ SansDoublon(liens)
    /\ pc \in {"x_ouvrir", "x_ecrire", "x_resume"} =>
          UrlsDe(deliberations) = liens
    /\ pc = "x_resume" =>
          LET donnees == JsonLoad(fichier.contenu)
          IN /\ donnees.valide
             /\ Len(donnees.deliberations) = Len(liens)
             /\ \A i \in 1..Len(liens) : donnees.deliberations[i].url = liens[i]
    /\ ("ecriture" \in journal /\ JsonLoad(fichier.contenu).valide) =>
          /\ JsonLoad(fichier.contenu).deliberations # <<>>
          /\ SansDoublon(UrlsDe(JsonLoad(fichier.contenu).deliberations))

\* C15 witness: a snapshot with two records has just been written for two
\* harvested links.
C15_Temoin ==
    /\ pc = "x_resume"
    /\ Len(liens) = 2
    /\ Len(JsonLoad(fichier.contenu).deliberations) = 2
    /\ reponses_items[1].statut = "exception"
    /\ reponses_items[2].statut = "ok"

\* C16: in an execution that harvests, the session named in every listing
\* request of the harvester and the session recorded in the snapshot just
\* written are the session the orchestrator detected at line 76 and compared
\* with the stored one, whatever the portal answers later in the execution.
C16_SeanceDuPipeline ==
    /\ url # UrlInitiale => url[Len(URL_BASE) + 2] = orch.nouvelle_seance_id
    /\ pc = "x_resume" =>
          /\ JsonLoad(fichier.contenu).seance.id = orch.nouvelle_seance_id
          /\ JsonLoad(fichier.contenu).seance.nom = orch.nouvelle_seance_nom

\* C17: the listing can only show links drawn from the N URLs of
\* UrlsDuPortail; whatever the portal answers (overlapping, repeated,
\* card-less or failing pages) the harvester makes at most 2 * N + 2 page
\* fetches, and at most 2 * n + 2 when it has found n links, each fetch
\* either leaving the loop or advancing the cursor, so that it terminates.
C17_TermineEnDeuxNPlusDeux ==
    LET N == Cardinality(UrlsDuPortail)
        n == Len(moisson.tous_les_liens)
    IN /\ Elements(moisson.tous_les_liens) \subseteq UrlsDuPortail
       /\ n <= N
       /\ obs.pages <= 2 * n + 2
       /\ obs.pages <= 2 * N + 2
       /\ pc = "x_liens" =>
              /\ moisson.page_actuelle = obs.pages * TaillePage
              /\ obs.pages <= 2 * n + moisson.pages_vides_consecutives
              /\ moisson.pages_vides_consecutives < SeuilPagesVides
       /\ (pc = "x_liens_retour" /\ obs.echecs = 0
              /\ obs.derniere.cartes # <<>>) =>
              moisson.pages_vides_consecutives = SeuilPagesVides

\* C17 witness: a harvest that ended after 2 * N + 2 fetches.
C17_Temoin ==
    /\ pc = "x_liens_retour"
    /\ Elements(moisson.tous_les_liens) = UrlsDuPortail
    /\ obs.pages = 2 * Cardinality(UrlsDuPortail) + 2
    /\ obs.redites # {}
====
